---- MODULE Spec2Model ----
(***************************************************************************)
(* Model of aeron-k8s-bootstrap (src/aeron-k8s-bootstrap.go): the peer     *)
(* discovery and interface-resolution pipeline.                            *)
(*                                                                         *)
(* Representation of strings.  A string is a sequence of symbols; a symbol *)
(* is a TLA+ string standing for a fixed piece of text that contains no    *)
(* separator ("m" is a network name such as mynet, "/" the slash, ","      *)
(* the comma, " " a blank).  Concatenation is \o and equality of strings   *)
(* is equality of sequences.  JSON objects inside an annotation are one    *)
(* symbol each.  A network-status annotation is a sequence of token        *)
(* records, the object tokens carrying the decoded attachment.             *)
(***************************************************************************)
EXTENDS Integers, Sequences, FiniteSets, TLC

VARIABLES
    pods,               \* the pods that the API lists for the label selector
    env,                \* the two override variables of getIP
    maxPods,            \* the result of getMaxPods
    maxPodsEnv,         \* the variable AERON_MD_MAX_BOOTSTRAP_PODS
    hostname,           \* the result of getCurrentHostname
    discoveryPort,      \* the result of getDiscoveryPort
    file,               \* the content of the bootstrap file, or NoFile
    fileBefore,         \* the bootstrap file as it was before the run
    pc,                 \* the position of the run
    cur,                \* the pod that the last call was about
    valid,              \* result of validateMultusNetworkStatus
    ipRet,              \* result of getIP
    podsRet,            \* result of getMediaDriverPods
    nsRet,              \* result of unmarshalNetworkStatus
    namesRet,           \* result of parseNetworksAnnotation
    neighborIPs,        \* main: the addresses of the peers
    currentPod,         \* main: the result of getCurrentPod
    resolverInterface   \* main: the address of the local instance

inputs == <<pods, env, maxPods, maxPodsEnv, hostname, discoveryPort, fileBefore>>
results == <<cur, valid, ipRet, podsRet, nsRet, namesRet>>
locals == <<neighborIPs, currentPod, resolverInterface>>

vars == <<inputs, file, pc, results, locals>>

(***************************************************************************)
(* Bounds of the model.                                                    *)
(***************************************************************************)
MaxCands == 3
MaxTime == 2
MaxCap == 2
MaxAtts == 2
MaxListed == 2
MaxEnvLen == 3

(***************************************************************************)
(* Program constants.                                                      *)
(***************************************************************************)
defaultSecondaryInterfaceName == "net1"
defaultDiscoveryPort == 8050
maxPort == 65535

(***************************************************************************)
(* encoding/json as used by the program: the validity scan that            *)
(* json.Unmarshal runs over the whole input before decoding.  The input is *)
(* given as the sequence of the kinds of its tokens:                       *)
(*   "["  "]"  ","   punctuation                                           *)
(*   "ws"            white space                                           *)
(*   "obj"           a complete JSON object                                *)
(*   "null"          the literal null                                      *)
(*   "scalar"        a complete string or number                           *)
(*   "open"          an object cut off after its first key                 *)
(*   "bad"           text that starts no JSON value                        *)
(* The result is "ok" (a complete JSON document), "eof" (the error         *)
(* "unexpected end of JSON input") or "syntax" (any other syntax error).   *)
(***************************************************************************)
RECURSIVE JsonScanFrom(_, _, _, _)
JsonScanFrom(kinds, i, mode, depth) ==
    IF i > Len(kinds)
    THEN IF mode = "end" THEN "ok" ELSE "eof"
    ELSE LET k == kinds[i] IN
         IF k = "ws" THEN JsonScanFrom(kinds, i + 1, mode, depth)
         ELSE IF mode \in {"val", "valOrClose"}
         THEN CASE k = "[" -> JsonScanFrom(kinds, i + 1, "valOrClose", depth + 1)
                [] k \in {"obj", "null", "scalar"} ->
                       JsonScanFrom(kinds, i + 1, IF depth = 0 THEN "end" ELSE "after", depth)
                [] k = "open" -> JsonScanFrom(kinds, i + 1, "trunc", depth)
                [] k = "]" /\ mode = "valOrClose" ->
                       JsonScanFrom(kinds, i + 1, IF depth = 1 THEN "end" ELSE "after", depth - 1)
                [] OTHER -> "syntax"
         ELSE IF mode = "after"
         THEN CASE k = "," -> JsonScanFrom(kinds, i + 1, "val", depth)
                [] k = "]" ->
                       JsonScanFrom(kinds, i + 1, IF depth = 1 THEN "end" ELSE "after", depth - 1)
                [] OTHER -> "syntax"
         ELSE "syntax"

JsonScan(kinds) == JsonScanFrom(kinds, 1, "val", 0)

NonWs(kinds) == SelectSeq(kinds, LAMBDA k : k # "ws")

\* json.Unmarshal of a document into a slice of objects ([]NetworkStatus or
\* []map[string]any): "eof" and "syntax" as JsonScan; "type" when the document
\* is valid JSON that is not an array of objects/null (UnmarshalTypeError);
\* "nil" when it decodes (an array, or the literal null which leaves the slice nil).
JsonUnmarshalSlice(kinds) ==
    LET scan == JsonScan(kinds)
        body == NonWs(kinds)
    IN  IF scan # "ok" THEN scan
        ELSE IF body = <<"null">> THEN "nil"
        ELSE IF body[1] # "["
                \/ \E i \in 2..Len(body) : body[i] \in {"[", "scalar"}
             THEN "type"
        ELSE "nil"

(***************************************************************************)
(* The network-status annotation: tokens and their decoding.               *)
(***************************************************************************)
Tok(t) == [t |-> t, name |-> <<>>, interface |-> "", ips |-> <<>>]

\* the token for the JSON object {"name":..., "interface":..., "ips":[...]}
AttObj(name, interface, ips) ==
    [t |-> "obj", name |-> name, interface |-> interface, ips |-> ips]

\* type NetworkStatus struct: the fields the program reads
NetworkStatus(tok) ==
    [Name |-> tok.name, Interface |-> tok.interface, IPs |-> tok.ips]

StatusKinds(annotation) == [i \in 1..Len(annotation) |-> annotation[i].t]

unmarshalNetworkStatus(annotation) ==
    LET res == JsonUnmarshalSlice(StatusKinds(annotation))
        elems == SelectSeq(annotation, LAMBDA tok : tok.t \in {"obj", "null"})
    IN  IF res # "nil"
        THEN IF res = "eof"
             THEN [networks |-> <<>>, err |-> "nil"]
             ELSE [networks |-> <<>>, err |-> "error"]
        ELSE [networks |-> [i \in 1..Len(elems) |-> NetworkStatus(elems[i])],
              err |-> "nil"]

(***************************************************************************)
(* The networks (request) annotation: a sequence of symbols.               *)
(***************************************************************************)
\* the symbols that are complete JSON objects, with the value of their
\* "name" member when it is a string:
\*   "{name:m}" is {"name":"m"}, "{name:x}" is {"name":"x"},
\*   "{name:7}" is {"name":7},   "{}" is {}
NetObjects == {"{name:m}", "{name:x}", "{name:7}", "{}"}

NetTokKind(c) ==
    CASE c \in {"[", "]", ","} -> c
      [] c = " " -> "ws"
      [] c \in NetObjects -> "obj"
      [] c = "null" -> "null"
      [] OTHER -> "bad"

NetKinds(annotation) == [i \in 1..Len(annotation) |-> NetTokKind(annotation[i])]

\* name, ok := obj["name"].(string)
ObjHasName(c) == c \in {"{name:m}", "{name:x}"}
ObjName(c) == IF c = "{name:m}" THEN <<"m">> ELSE <<"x">>

\* strings.TrimSpace
RECURSIVE TrimLeft(_)
TrimLeft(s) == IF s # <<>> /\ Head(s) = " " THEN TrimLeft(Tail(s)) ELSE s

RECURSIVE TrimRight(_)
TrimRight(s) ==
    IF s # <<>> /\ s[Len(s)] = " " THEN TrimRight(SubSeq(s, 1, Len(s) - 1)) ELSE s

TrimSpace(s) == TrimRight(TrimLeft(s))

\* strings.Split(s, ","): the pieces between the commas, empty pieces kept
RECURSIVE SplitFrom(_, _, _)
SplitFrom(s, i, piece) ==
    IF i > Len(s) THEN <<piece>>
    ELSE IF s[i] = "," THEN <<piece>> \o SplitFrom(s, i + 1, <<>>)
    ELSE SplitFrom(s, i + 1, Append(piece, s[i]))

Split(s) == SplitFrom(s, 1, <<>>)

parseNetworksAnnotation(annotation) ==
    IF annotation = <<>> THEN <<>>
    ELSE IF JsonUnmarshalSlice(NetKinds(annotation)) = "nil"
    THEN LET named == SelectSeq(annotation, ObjHasName)
         IN  [i \in 1..Len(named) |-> ObjName(named[i])]
    ELSE LET pieces == Split(annotation)
             trimmed == [i \in 1..Len(pieces) |-> TrimSpace(pieces[i])]
         IN  SelectSeq(trimmed, LAMBDA n : n # <<>>)

(***************************************************************************)
(* validateMultusNetworkStatus                                             *)
(***************************************************************************)
\* nameMatches mutated: any namespace qualifier is accepted
nameMatches_anyNamespace(statusName, namespace, expectedNetwork) ==
    \/ statusName = expectedNetwork
    \/ /\ Len(statusName) = Len(expectedNetwork) + 2
       /\ statusName[2] = "/"
       /\ SubSeq(statusName, 3, Len(statusName)) = expectedNetwork

\* nameMatches mutated: the namespace-qualified name is not accepted
nameMatches_exactOnly(statusName, namespace, expectedNetwork) ==
    statusName = expectedNetwork

nameMatches(statusName, namespace, expectedNetwork) ==
    \/ statusName = expectedNetwork
    \/ statusName = namespace \o <<"/">> \o expectedNetwork

\* the inner loop: the verdict for one expected network is decided by the
\* first status entry whose name matches
RECURSIVE expectedNetworkOk(_, _, _, _)
expectedNetworkOk(networkStatuses, i, namespace, expectedNetwork) ==
    IF i > Len(networkStatuses) THEN FALSE
    ELSE IF nameMatches(networkStatuses[i].Name, namespace, expectedNetwork)
    THEN Len(networkStatuses[i].IPs) # 0
    ELSE expectedNetworkOk(networkStatuses, i + 1, namespace, expectedNetwork)

\* validateMultusNetworkStatus mutated: the names are parsed before the status
\* annotation is looked at, and no name means valid
validateMultusNetworkStatus_namesFirst(pod) ==
    IF parseNetworksAnnotation(pod.networks) = <<>> THEN TRUE
    ELSE IF pod.status = <<>> THEN FALSE
    ELSE LET expectedNetworks == parseNetworksAnnotation(pod.networks)
             st == unmarshalNetworkStatus(pod.status)
         IN  IF st.err # "nil" THEN FALSE
             ELSE \A k \in 1..Len(expectedNetworks) :
                     expectedNetworkOk(st.networks, 1, pod.Namespace, expectedNetworks[k])

validateMultusNetworkStatus(pod) ==
    IF pod.networks = <<>> THEN TRUE
    ELSE IF pod.status = <<>> THEN FALSE
    ELSE LET expectedNetworks == parseNetworksAnnotation(pod.networks)
             st == unmarshalNetworkStatus(pod.status)
         IN  IF st.err # "nil" THEN FALSE
             ELSE \A k \in 1..Len(expectedNetworks) :
                     expectedNetworkOk(st.networks, 1, pod.Namespace, expectedNetworks[k])

(***************************************************************************)
(* getIP.  The environment is env.netName and env.ifName, each the pair    *)
(* (value, isSet) that os.LookupEnv returns.  The result is the returned   *)
(* address with err "nil", or err "error" (an error is returned), or err   *)
(* "panic" (index out of range on network.IPs[0]).                         *)
(***************************************************************************)
\* the condition of the if / else if / else if chain for one attachment
networkSelected(network, e) ==
    \/ e.netName.set /\ network.Name = e.netName.val
    \/ e.ifName.set /\ network.Interface = e.ifName.val
    \/ network.Interface = defaultSecondaryInterfaceName

RECURSIVE firstSelected(_, _, _)
firstSelected(networks, i, e) ==
    IF i > Len(networks) THEN 0
    ELSE IF networkSelected(networks[i], e) THEN i
    ELSE firstSelected(networks, i + 1, e)

\* getIP mutated: without attachments there is no fallback to the PodIP
getIP_noFallback(pod, e) ==
    LET st == unmarshalNetworkStatus(pod.status) IN
    IF st.err # "nil" THEN [ip |-> "", err |-> "error"]
    ELSE IF Len(st.networks) = 0 THEN [ip |-> "", err |-> "nil"]
    ELSE LET j == firstSelected(st.networks, 1, e) IN
         IF j = 0 THEN [ip |-> pod.PodIP, err |-> "nil"]
         ELSE IF Len(st.networks[j].IPs) = 0 THEN [ip |-> "", err |-> "panic"]
         ELSE [ip |-> st.networks[j].IPs[1], err |-> "nil"]

getIP(pod, e) ==
    LET st == unmarshalNetworkStatus(pod.status) IN
    IF st.err # "nil" THEN [ip |-> "", err |-> "error"]
    ELSE IF Len(st.networks) = 0 THEN [ip |-> pod.PodIP, err |-> "nil"]
    ELSE LET j == firstSelected(st.networks, 1, e) IN
         IF j = 0 THEN [ip |-> pod.PodIP, err |-> "nil"]
         ELSE IF Len(st.networks[j].IPs) = 0 THEN [ip |-> "", err |-> "panic"]
         ELSE [ip |-> st.networks[j].IPs[1], err |-> "nil"]

(***************************************************************************)
(* getMediaDriverPods                                                      *)
(***************************************************************************)
PodInfo(pod, ip) == [Name |-> pod.Name, IP |-> ip, CreationTime |-> pod.CreationTime]

\* less mutated: the comparison is reversed
less_reversed(a, b) == b.CreationTime < a.CreationTime

\* the comparison handed to sort.Slice
less(a, b) == a.CreationTime < b.CreationTime

\* sort.Slice on a slice of at most 12 elements is insertionSortLessFunc:
\* element i moves down while it is less than its predecessor
RECURSIVE moveDown(_, _)
moveDown(data, j) ==
    IF j > 1 /\ less(data[j], data[j - 1])
    THEN moveDown([data EXCEPT ![j] = data[j - 1], ![j - 1] = data[j]], j - 1)
    ELSE data

RECURSIVE insertionSortFrom(_, _)
insertionSortFrom(data, i) ==
    IF i > Len(data) THEN data
    ELSE insertionSortFrom(moveDown(data, i), i + 1)

insertionSort(data) == insertionSortFrom(data, 2)

\* the longest slice that sort.Slice sorts by insertion
maxInsertion == 12

\* Beyond maxInsertion sort.Slice runs pdqsort_func.  Indices are those of
\* Go, from 0: at(data, g) is data[g].
at(data, g) == data[g + 1]

swap(data, g, h) == [data EXCEPT ![g + 1] = data[h + 1], ![h + 1] = data[g + 1]]

\* order2_func: the two indices, exchanged when data[b] is less than data[a]
order2(data, a, b) == IF less(at(data, b), at(data, a)) THEN <<b, a>> ELSE <<a, b>>

\* choosePivot_func on a slice of 8 to 49 elements: the median of the
\* elements at a quarter, a half and three quarters, and whether the three
\* were in increasing order (no exchange)
choosePivot(data) ==
    LET l == Len(data)
        i == l \div 4
        j == (l \div 4) * 2
        k == (l \div 4) * 3
        s1 == order2(data, i, j)
        s2 == order2(data, s1[2], k)
        s3 == order2(data, s1[1], s2[1])
    IN  [pivot |-> s3[2],
         increasing |-> s1 = <<i, j>> /\ s2 = <<s1[2], k>> /\ s3 = <<s1[1], s2[1]>>]

\* partialInsertionSort_func on a slice of fewer than 50 elements: nothing
\* is moved, the result is whether the slice is sorted
partialInsertionSort(data) ==
    \A g \in 1..(Len(data) - 1) : ~less(at(data, g), at(data, g - 1))

\* the loops of partition_func; the pivot is at index 0
RECURSIVE scanUp(_, _, _)
scanUp(data, i, j) ==
    IF i <= j /\ less(at(data, i), at(data, 0)) THEN scanUp(data, i + 1, j) ELSE i

RECURSIVE scanDown(_, _, _)
scanDown(data, i, j) ==
    IF i <= j /\ ~less(at(data, j), at(data, 0)) THEN scanDown(data, i, j - 1) ELSE j

RECURSIVE partitionLoop(_, _, _)
partitionLoop(data, i0, j0) ==
    LET i == scanUp(data, i0, j0)
        j == scanDown(data, i, j0)
    IN  IF i > j THEN [data |-> data, j |-> j]
        ELSE partitionLoop(swap(data, i, j), i + 1, j - 1)

\* partition_func(data, 0, len, pivot): the elements less than the pivot,
\* the pivot at index mid, the other elements
partition(data, pivot) ==
    LET d == swap(data, 0, pivot)
        i == scanUp(d, 1, Len(d) - 1)
        j == scanDown(d, i, Len(d) - 1)
    IN  IF i > j
        THEN [data |-> swap(d, j, 0), mid |-> j, alreadyPartitioned |-> TRUE]
        ELSE LET r == partitionLoop(swap(d, i, j), i + 1, j - 1)
             IN  [data |-> swap(r.data, r.j, 0), mid |-> r.j,
                  alreadyPartitioned |-> FALSE]

\* pdqsort_func on a slice of maxInsertion + 1 elements: after one
\* partition both sides are short enough for insertionSort
pdqsort(data) ==
    LET c == choosePivot(data)
        p == partition(data, c.pivot)
    IN  IF c.increasing /\ partialInsertionSort(data) THEN data
        ELSE IF p.alreadyPartitioned /\ partialInsertionSort(p.data) THEN p.data
        ELSE insertionSort(SubSeq(p.data, 1, p.mid))
                 \o <<at(p.data, p.mid)>>
                 \o insertionSort(SubSeq(p.data, p.mid + 2, Len(p.data)))

\* sort.Slice(runningPods, less) on at most maxInsertion + 1 elements
sortSlice(data) ==
    IF Len(data) <= maxInsertion THEN insertionSort(data) ELSE pdqsort(data)

\* collectFrom mutated: an invalid candidate aborts the loop with an error
RECURSIVE collectFrom_invalidFatal(_, _, _, _)
collectFrom_invalidFatal(items, i, e, runningPods) ==
    IF i > Len(items) THEN [pods |-> runningPods, err |-> "nil"]
    ELSE IF ~validateMultusNetworkStatus(items[i])
    THEN [pods |-> <<>>, err |-> "error"]
    ELSE LET r == getIP(items[i], e) IN
         IF r.err # "nil" THEN [pods |-> <<>>, err |-> r.err]
         ELSE IF r.ip # ""
         THEN collectFrom_invalidFatal(items, i + 1, e,
                                       Append(runningPods, PodInfo(items[i], r.ip)))
         ELSE collectFrom_invalidFatal(items, i + 1, e, runningPods)

\* collectFrom mutated: a candidate with an empty address is kept
RECURSIVE collectFrom_keepEmpty(_, _, _, _)
collectFrom_keepEmpty(items, i, e, runningPods) ==
    IF i > Len(items) THEN [pods |-> runningPods, err |-> "nil"]
    ELSE IF ~validateMultusNetworkStatus(items[i])
    THEN collectFrom_keepEmpty(items, i + 1, e, runningPods)
    ELSE LET r == getIP(items[i], e) IN
         IF r.err # "nil" THEN [pods |-> <<>>, err |-> r.err]
         ELSE collectFrom_keepEmpty(items, i + 1, e,
                                    Append(runningPods, PodInfo(items[i], r.ip)))

\* collectFrom mutated: a pod whose phase is not Running is skipped
RECURSIVE collectFrom_runningOnly(_, _, _, _)
collectFrom_runningOnly(items, i, e, runningPods) ==
    IF i > Len(items) THEN [pods |-> runningPods, err |-> "nil"]
    ELSE IF items[i].Phase # "Running" \/ ~validateMultusNetworkStatus(items[i])
    THEN collectFrom_runningOnly(items, i + 1, e, runningPods)
    ELSE LET r == getIP(items[i], e) IN
         IF r.err # "nil" THEN [pods |-> <<>>, err |-> r.err]
         ELSE IF r.ip # ""
         THEN collectFrom_runningOnly(items, i + 1, e,
                                      Append(runningPods, PodInfo(items[i], r.ip)))
         ELSE collectFrom_runningOnly(items, i + 1, e, runningPods)

\* the loop over pods.Items: the survivors in list order, or the first
\* failure of getIP
RECURSIVE collectFrom(_, _, _, _)
collectFrom(items, i, e, runningPods) ==
    IF i > Len(items) THEN [pods |-> runningPods, err |-> "nil"]
    ELSE IF ~validateMultusNetworkStatus(items[i])
    THEN collectFrom(items, i + 1, e, runningPods)
    ELSE LET r == getIP(items[i], e) IN
         IF r.err # "nil" THEN [pods |-> <<>>, err |-> r.err]
         ELSE IF r.ip # ""
         THEN collectFrom(items, i + 1, e, Append(runningPods, PodInfo(items[i], r.ip)))
         ELSE collectFrom(items, i + 1, e, runningPods)

\* getMediaDriverPods mutated: an empty result is reported as an error
getMediaDriverPods_errorOnEmpty(items, e, max) ==
    LET c == collectFrom(items, 1, e, <<>>) IN
    IF c.err # "nil" THEN c
    ELSE IF Len(c.pods) = 0 THEN [pods |-> <<>>, err |-> "error"]
    ELSE LET sorted == sortSlice(c.pods) IN
         IF max > 0 /\ Len(sorted) > max
         THEN [pods |-> SubSeq(sorted, 1, max), err |-> "nil"]
         ELSE [pods |-> sorted, err |-> "nil"]

\* getMediaDriverPods mutated: the cap is applied before the sort
getMediaDriverPods_capBeforeSort(items, e, max) ==
    LET c == collectFrom(items, 1, e, <<>>) IN
    IF c.err # "nil" THEN c
    ELSE IF Len(c.pods) = 0 THEN [pods |-> <<>>, err |-> "nil"]
    ELSE IF max > 0 /\ Len(c.pods) > max
         THEN [pods |-> sortSlice(SubSeq(c.pods, 1, max)), err |-> "nil"]
         ELSE [pods |-> sortSlice(c.pods), err |-> "nil"]

getMediaDriverPods(items, e, max) ==
    LET c == collectFrom(items, 1, e, <<>>) IN
    IF c.err # "nil" THEN c
    ELSE IF Len(c.pods) = 0 THEN [pods |-> <<>>, err |-> "nil"]
    ELSE LET sorted == sortSlice(c.pods) IN
         IF max > 0 /\ Len(sorted) > max
         THEN [pods |-> SubSeq(sorted, 1, max), err |-> "nil"]
         ELSE [pods |-> sorted, err |-> "nil"]

(***************************************************************************)
(* Configuration from the environment.  The value of a variable is a       *)
(* string of one-character symbols.                                        *)
(***************************************************************************)
\* os.Getenv: the value of the variable, "" when it is not set
Getenv(v) == IF v.set THEN v.val ELSE <<>>

\* ch - '0' for a decimal digit, 10 for any other character
digitOf(ch) ==
    CASE ch = "0" -> 0 [] ch = "1" -> 1 [] ch = "2" -> 2 [] ch = "3" -> 3
      [] ch = "4" -> 4 [] ch = "5" -> 5 [] ch = "6" -> 6 [] ch = "7" -> 7
      [] ch = "8" -> 8 [] ch = "9" -> 9 [] OTHER -> 10

\* the digit loop of strconv.Atoi: n = n*10 + digit, a syntax error at the
\* first character that is no digit
RECURSIVE atoiDigits(_, _, _)
atoiDigits(s, i, n) ==
    IF i > Len(s) THEN [val |-> n, err |-> "nil"]
    ELSE IF digitOf(s[i]) > 9 THEN [val |-> 0, err |-> "syntax"]
    ELSE atoiDigits(s, i + 1, n * 10 + digitOf(s[i]))

\* strconv.Atoi for a string short enough for its fast path: an optional
\* sign, then one digit at least
Atoi(s0) ==
    IF s0 = <<>> THEN [val |-> 0, err |-> "syntax"]
    ELSE LET signed == s0[1] \in {"-", "+"}
             s == IF signed THEN Tail(s0) ELSE s0
             r == atoiDigits(s, 1, 0)
         IN  IF s = <<>> THEN [val |-> 0, err |-> "syntax"]
             ELSE IF r.err = "nil" /\ s0[1] = "-" THEN [val |-> 0 - r.val, err |-> "nil"]
             ELSE r

\* getMaxPods mutated: a negative number is accepted
getMaxPods_allowNegative(v) ==
    LET maxStr == Getenv(v)
        r == Atoi(maxStr)
    IN  IF maxStr # <<>> /\ r.err = "nil" THEN r.val ELSE 0

getMaxPods(v) ==
    LET maxStr == Getenv(v)
        r == Atoi(maxStr)
    IN  IF maxStr # <<>> /\ r.err = "nil" /\ r.val >= 0 THEN r.val ELSE 0

(***************************************************************************)
(* The bootstrap file: whether it exists, and its data, a string (a        *)
(* sequence of symbols, the line feed being the symbol "\n" and every      *)
(* decimal digit a symbol).                                                *)
(***************************************************************************)
\* the verb %d of fmt.Sprintf: the decimal digits of an integer
RECURSIVE Itoa(_)
Itoa(n) ==
    IF n < 0 THEN <<"-">> \o Itoa(0 - n)
    ELSE IF n < 10 THEN <<(<<"0", "1", "2", "3", "4", "5", "6", "7", "8", "9">>)[n + 1]>>
    ELSE Itoa(n \div 10) \o Itoa(n % 10)

\* strings.Join(elems, sep)
RECURSIVE Join(_, _)
Join(elems, sep) ==
    IF Len(elems) = 0 THEN <<>>
    ELSE IF Len(elems) = 1 THEN elems[1]
    ELSE elems[1] \o sep \o Join(Tail(elems), sep)

getHostnameSuffix == <<".aeron">>

\* fmt.Sprintf("%s.%s%s", baseHostname, namespace, suffix)
buildAeronHostname(baseHostname, namespace) ==
    baseHostname \o <<".">> \o namespace \o getHostnameSuffix

\* fmt.Sprintf("%s:%d", ip, discoveryPort) for each peer address
neighbors(ips, port) ==
    [i \in 1..Len(ips) |-> <<ips[i], ":">> \o Itoa(port)]

\* contentLines mutated: the neighbor line is written for an empty list too
contentLines_alwaysNeighbor(ips, port, fullHostname, iface) ==
    << <<"aeron.driver.resolver.bootstrap.neighbor=">> \o Join(neighbors(ips, port), <<",">>),
       <<"aeron.name.resolver.supplier=driver">>,
       <<"aeron.driver.resolver.name=">> \o fullHostname,
       <<"aeron.driver.resolver.interface=", iface, ":">> \o Itoa(port) >>

contentLines(ips, port, fullHostname, iface) ==
    (IF Len(neighbors(ips, port)) > 0
     THEN << <<"aeron.driver.resolver.bootstrap.neighbor=">>
                \o Join(neighbors(ips, port), <<",">>) >>
     ELSE <<>>)
    \o << <<"aeron.name.resolver.supplier=driver">>,
          <<"aeron.driver.resolver.name=">> \o fullHostname,
          <<"aeron.driver.resolver.interface=", iface, ":">> \o Itoa(port) >>

\* content mutated: no line feed after the last line
content_noFinalNewline(ips, port, fullHostname, iface) ==
    Join(contentLines(ips, port, fullHostname, iface), <<"\n">>)

content(ips, port, fullHostname, iface) ==
    Join(contentLines(ips, port, fullHostname, iface), <<"\n">>) \o <<"\n">>

\* WriteFile mutated: the data is appended to an existing file
WriteFile_append(old, data) == [exists |-> TRUE, data |-> old.data \o data]

\* os.WriteFile: the file is created or truncated, then holds the data
WriteFile(old, data) == [exists |-> TRUE, data |-> data]

\* the file and the error after createBootstrapPropertiesAtPath, old being
\* the file before.  outcome is what the file system does: "ok", "mkdir"
\* (MkdirAll fails, nothing is written) or "write" (WriteFile fails, having
\* truncated the file or not: trunc).
createBootstrapPropertiesAtPath(old, ips, port, fullHostname, iface, outcome, trunc) ==
    IF outcome = "mkdir" THEN [file |-> old, err |-> "error"]
    ELSE IF outcome = "write"
    THEN [file |-> IF trunc THEN WriteFile(old, <<>>) ELSE old, err |-> "error"]
    ELSE [file |-> WriteFile(old, content(ips, port, fullHostname, iface)),
          err |-> "nil"]

(***************************************************************************)
(* Inputs: candidate records, annotations, environment.                    *)
(***************************************************************************)
\* metadata.name of the i-th listed pod; names are unique within a namespace
PodName(i) == <<"aeron-">> \o Itoa(i)

TestNamespace == <<"ns">>

Unset == [set |-> FALSE, val |-> <<>>]
UnsetIf == [set |-> FALSE, val |-> ""]
SetTo(v) == [set |-> TRUE, val |-> v]

\* json.Marshal of a list of attachments: [obj,obj,...]
RECURSIVE CommaJoin(_)
CommaJoin(objs) ==
    IF Len(objs) = 0 THEN <<>>
    ELSE IF Len(objs) = 1 THEN <<objs[1]>>
    ELSE <<objs[1], Tok(",")>> \o CommaJoin(Tail(objs))

EncodeStatus(objs) == <<Tok("[")>> \o CommaJoin(objs) \o <<Tok("]")>>

SampleObj == AttObj(<<"m">>, "net1", <<"ip1">>)

\* annotation values that are not an array of attachments
OddStatuses ==
    { <<>>,                                             \* absent or ""
      <<Tok("[")>>,                                     \* [            cut off
      <<Tok("["), SampleObj>>,                          \* [{...}       cut off
      <<Tok("["), SampleObj, Tok(",")>>,                \* [{...},      cut off
      <<Tok("open")>>,                                  \* {"name"      cut off
      <<Tok("ws")>>,                                    \* blank
      <<Tok("bad")>>,                                   \* not JSON
      <<Tok("["), SampleObj, SampleObj, Tok("]")>>,     \* comma missing
      <<Tok("["), SampleObj, Tok("]"), Tok("]")>>,      \* text after the end
      <<SampleObj>>,                                    \* an object, no array
      <<Tok("["), Tok("scalar"), Tok("]")>>,            \* [7]
      <<Tok("null")>>,                                  \* null
      <<Tok("["), Tok("null"), Tok("]")>> }             \* [null]

NetworksValues ==
    { <<>>,
      <<"m">>,
      <<"x">>,
      <<"ns", "/", "m">>,
      <<"m", ",", "x">>,
      <<" ", "m", " ", ",", " ", "x">>,
      <<"m", ",", ",", "m">>,
      <<",", " ", ",">>,
      <<" ">>,
      <<"[", "]">>,
      <<"[", "{name:m}", "]">>,
      <<"[", "{name:m}", ",", " ", "{name:x}", "]">>,
      <<"[", "{}", "]">>,
      <<"[", "{name:7}", ",", "null", "]">>,
      <<"[", "{name:m}">>,
      <<"null">> }

ValidateAtts ==
    { AttObj(n, "net1", ips) :
        n \in {<<"m">>, <<"ns", "/", "m">>, <<"o", "/", "m">>, <<"x">>},
        ips \in {<<>>, <<"ip1">>} }

GetIPAtts ==
    { AttObj(n, itf, ips) :
        n \in {<<"m">>, <<"x">>},
        itf \in {"net1", "net2", "eth0"},
        ips \in {<<>>, <<"ip1">>, <<"ip2", "ip1">>} }

NetNameSettings == {Unset, SetTo(<<>>), SetTo(<<"m">>)}
IfNameSettings == {UnsetIf, SetTo(""), SetTo("net2")}

Pod(name, time, podIP, networks, status) ==
    [Name |-> name, Namespace |-> TestNamespace, CreationTime |-> time,
     PodIP |-> podIP, networks |-> networks, status |-> status]

\* the kinds of candidate used in candidate lists: (PodIP, networks, status).
\* The second has no primary address: it resolves to "" unless the
\* network-name override selects its second attachment.
ListShapes ==
    { <<"pip", <<>>, <<>>>>,
      <<"", <<"m">>, EncodeStatus(<<AttObj(<<"x">>, "eth0", <<"ip1">>),
                                    AttObj(<<"m">>, "net2", <<"ip2">>)>>)>>,
      <<"pip", <<"m">>, <<>>>>,
      <<"pip", <<"m">>, EncodeStatus(<<AttObj(<<"o", "/", "m">>, "net1", <<"ip1">>)>>)>>,
      <<"pip", <<>>, <<Tok("bad")>>>> }

\* the candidate list of n pods with creation times t and shapes sh
CandidateList(n, t, sh) ==
    [i \in 1..n |-> Pod(PodName(i), t[i], sh[i][1], sh[i][2], sh[i][3])]

\* pods is one pod with the given primary address and networks annotation,
\* its status annotation an array of at most MaxAtts attachments drawn from
\* atts, or one of the odd values
OnePod(podIP, networks, atts) ==
    \/ \E k \in 0..MaxAtts : \E a \in [1..k -> atts] :
          pods = <<Pod(PodName(1), 1, podIP, networks, EncodeStatus(a))>>
    \/ \E st \in OddStatuses :
          pods = <<Pod(PodName(1), 1, podIP, networks, st)>>

NoIP == [ip |-> "", err |-> "nil"]
NoPods == [pods |-> <<>>, err |-> "nil"]
NoNetworks == [networks |-> <<>>, err |-> "nil"]
NoPod == Pod(<<>>, 0, "", <<>>, <<>>)

\* a pod of the namespace that the label selector does not select
OtherName == <<"other">>
OtherPod == Pod(OtherName, 1, "pip", <<>>, <<>>)

\* Pods(namespace).Get(podName): the listed pod of that name, the pod outside
\* the selection, or an error when the namespace has no pod of that name
getCurrentPod(listed, podName) ==
    LET found == { i \in DOMAIN listed : listed[i].Name = podName }
    IN  IF found # {} THEN [pod |-> listed[CHOOSE i \in found : TRUE], err |-> "nil"]
        ELSE IF podName = OtherName THEN [pod |-> OtherPod, err |-> "nil"]
        ELSE [pod |-> NoPod, err |-> "error"]

\* the kinds of candidate in the runs of main: (PodIP, networks, status)
MainShapes ==
    { <<"pip", <<>>, <<>>>>,
      <<"pip", <<"m">>, EncodeStatus(<<AttObj(<<"m">>, "net1", <<"ip1">>)>>)>>,
      <<"", <<"m">>, EncodeStatus(<<AttObj(<<"x">>, "eth0", <<"ip1">>),
                                    AttObj(<<"m">>, "net2", <<"ip2">>)>>)>>,
      <<"pip", <<"m">>, <<>>>>,
      <<"pip", <<>>, <<Tok("bad")>>>>,
      <<"pip", <<>>, EncodeStatus(<<AttObj(<<"x">>, "net1", <<>>)>>)>>,
      <<"pip", <<"m">>, EncodeStatus(<<AttObj(<<"x">>, "net1", <<>>)>>)>> }

\* the bootstrap file does not exist
NoFile == [exists |-> FALSE, data |-> <<>>]

\* a bootstrap file left by an earlier run
OldFile == [exists |-> TRUE, data |-> <<"aeron.name.resolver.supplier=driver", "\n">>]

(***************************************************************************)
(* Operations                                                              *)
(***************************************************************************)
\* one call of validateMultusNetworkStatus on a listed pod
ValidateCall ==
    /\ pc = "start"
    /\ \E i \in DOMAIN pods :
          /\ cur' = i
          /\ valid' = validateMultusNetworkStatus(pods[i])
    /\ pc' = "validated"
    /\ UNCHANGED <<inputs, file, locals, ipRet, podsRet, nsRet, namesRet>>

\* one call of getIP on a pod
GetIPCall ==
    /\ pc = "start"
    /\ \E i \in DOMAIN pods :
          /\ cur' = i
          /\ ipRet' = getIP(pods[i], env)
    /\ pc' = "resolved"
    /\ UNCHANGED <<inputs, file, locals, valid, podsRet, nsRet, namesRet>>

\* main calls getMediaDriverPods on the pods that the API lists
GetMediaDriverPodsCall ==
    /\ pc = "start"
    /\ podsRet' = getMediaDriverPods(pods, env, maxPods)
    /\ pc' = "listed"
    /\ UNCHANGED <<inputs, file, locals, cur, valid, ipRet, nsRet, namesRet>>

\* one call of unmarshalNetworkStatus on the network-status annotation of a pod
UnmarshalCall ==
    /\ pc = "start"
    /\ \E i \in DOMAIN pods :
          /\ cur' = i
          /\ nsRet' = unmarshalNetworkStatus(pods[i].status)
    /\ pc' = "unmarshalled"
    /\ UNCHANGED <<inputs, file, locals, valid, ipRet, podsRet, namesRet>>

\* one call of parseNetworksAnnotation on the networks annotation of a pod
ParseCall ==
    /\ pc = "start"
    /\ \E i \in DOMAIN pods :
          /\ cur' = i
          /\ namesRet' = parseNetworksAnnotation(pods[i].networks)
    /\ pc' = "parsed"
    /\ UNCHANGED <<inputs, file, locals, valid, ipRet, podsRet, nsRet>>

\* one call of createBootstrapPropertiesAtPath with the peer addresses, port,
\* host name and local address at hand; it may be called again on the file
\* that it has written
CreateCall ==
    /\ pc \in {"start", "created"}
    /\ \E outcome \in {"ok", "mkdir", "write"}, trunc \in BOOLEAN :
          LET r == createBootstrapPropertiesAtPath(
                       file, neighborIPs, discoveryPort,
                       buildAeronHostname(hostname, TestNamespace),
                       resolverInterface, outcome, trunc)
          IN  /\ file' = r.file
              /\ pc' = IF r.err # "nil" THEN "createFailed"
                       ELSE IF pc = "start" THEN "created" ELSE "recreated"
    /\ UNCHANGED <<inputs, results, locals>>

\* main does not get its client or its namespace: log.Fatalf before any
\* other call
MainSetupFails ==
    /\ pc = "start"
    /\ pc' = "fatalSetup"
    /\ UNCHANGED <<inputs, file, results, locals>>

\* main calls getMediaDriverPods and the API does not list the pods
ListPodsFails ==
    /\ pc = "start"
    /\ podsRet' = [pods |-> <<>>, err |-> "failed to list pods"]
    /\ pc' = "listed"
    /\ UNCHANGED <<inputs, file, locals, cur, valid, ipRet, nsRet, namesRet>>

\* MainCheckPods mutated: an empty peer list is not a reason to stop
MainCheckPods_noExit ==
    /\ pc = "listed"
    /\ IF podsRet.err # "nil"
       THEN pc' = (IF podsRet.err = "panic" THEN "panic" ELSE "fatal")
            /\ UNCHANGED neighborIPs
       ELSE /\ neighborIPs' = [k \in 1..Len(podsRet.pods) |-> podsRet.pods[k].IP]
            /\ pc' = "peers"
    /\ UNCHANGED <<inputs, file, results, currentPod, resolverInterface>>

\* MainCheckPods mutated: the address of the local pod is left out
MainCheckPods_skipLocal ==
    /\ pc = "listed"
    /\ IF podsRet.err # "nil"
       THEN pc' = (IF podsRet.err = "panic" THEN "panic" ELSE "fatal")
            /\ UNCHANGED neighborIPs
       ELSE IF Len(podsRet.pods) = 0
       THEN pc' = "exit1" /\ UNCHANGED neighborIPs
       ELSE /\ neighborIPs' =
                  LET others == SelectSeq(podsRet.pods, LAMBDA p : p.Name # hostname)
                  IN  [k \in 1..Len(others) |-> others[k].IP]
            /\ pc' = "peers"
    /\ UNCHANGED <<inputs, file, results, currentPod, resolverInterface>>

\* main after getMediaDriverPods: log.Fatalf on an error (the process is gone
\* already after a run-time failure), exit status 1 on an empty list,
\* otherwise the addresses of the peers are collected
MainCheckPods ==
    /\ pc = "listed"
    /\ IF podsRet.err # "nil"
       THEN pc' = (IF podsRet.err = "panic" THEN "panic" ELSE "fatal")
            /\ UNCHANGED neighborIPs
       ELSE IF Len(podsRet.pods) = 0
       THEN pc' = "exit1" /\ UNCHANGED neighborIPs
       ELSE /\ neighborIPs' = [k \in 1..Len(podsRet.pods) |-> podsRet.pods[k].IP]
            /\ pc' = "peers"
    /\ UNCHANGED <<inputs, file, results, currentPod, resolverInterface>>

\* main calls getCurrentPod: log.Fatalf when the API has no pod of that name
GetCurrentPodCall ==
    /\ pc = "peers"
    /\ LET r == getCurrentPod(pods, hostname)
       IN  /\ currentPod' = r.pod
           /\ pc' = IF r.err = "nil" THEN "current" ELSE "fatal"
    /\ UNCHANGED <<inputs, file, results, neighborIPs, resolverInterface>>

\* ResolveInterfaceCall mutated: the primary address of the local pod is taken
ResolveInterfaceCall_podIP ==
    /\ pc = "current"
    /\ ipRet' = [ip |-> currentPod.PodIP, err |-> "nil"]
    /\ resolverInterface' = currentPod.PodIP
    /\ pc' = IF currentPod.PodIP = "" THEN "fatal" ELSE "resolvedLocal"
    /\ UNCHANGED <<inputs, file, cur, valid, podsRet, nsRet, namesRet,
                   neighborIPs, currentPod>>

\* ResolveInterfaceCall mutated: an empty local address is not fatal
ResolveInterfaceCall_emptyOk ==
    /\ pc = "current"
    /\ LET r == getIP(currentPod, env)
       IN  /\ ipRet' = r
           /\ resolverInterface' = r.ip
           /\ pc' = IF r.err = "panic" THEN "panic"
                    ELSE IF r.err # "nil" THEN "fatal"
                    ELSE "resolvedLocal"
    /\ UNCHANGED <<inputs, file, cur, valid, podsRet, nsRet, namesRet,
                   neighborIPs, currentPod>>

\* main calls getIP on the local pod: log.Fatalf on an error or an empty address
ResolveInterfaceCall ==
    /\ pc = "current"
    /\ LET r == getIP(currentPod, env)
       IN  /\ ipRet' = r
           /\ resolverInterface' = r.ip
           /\ pc' = IF r.err = "panic" THEN "panic"
                    ELSE IF r.err # "nil" \/ r.ip = "" THEN "fatal"
                    ELSE "resolvedLocal"
    /\ UNCHANGED <<inputs, file, cur, valid, podsRet, nsRet, namesRet,
                   neighborIPs, currentPod>>

\* main calls createBootstrapPropertiesAtPath: log.Fatalf on an error
MainCreate ==
    /\ pc = "resolvedLocal"
    /\ \E outcome \in {"ok", "mkdir", "write"}, trunc \in BOOLEAN :
          LET r == createBootstrapPropertiesAtPath(
                       file, neighborIPs, discoveryPort,
                       buildAeronHostname(hostname, TestNamespace),
                       resolverInterface, outcome, trunc)
          IN  /\ file' = r.file
              /\ pc' = IF r.err = "nil" THEN "done" ELSE "fatal"
    /\ UNCHANGED <<inputs, results, locals>>

\* main calls getMaxPods
GetMaxPodsCall ==
    /\ pc = "start"
    /\ maxPods' = getMaxPods(maxPodsEnv)
    /\ pc' = "configured"
    /\ UNCHANGED <<pods, env, maxPodsEnv, hostname, discoveryPort, fileBefore,
                   file, results, locals>>

\* nothing has been called
InitCommon ==
    /\ pc = "start"
    /\ cur = 0
    /\ valid = FALSE
    /\ ipRet = NoIP
    /\ podsRet = NoPods
    /\ nsRet = NoNetworks
    /\ namesRet = <<>>
    /\ neighborIPs = <<>>
    /\ currentPod = NoPod
    /\ resolverInterface = ""

\* the surroundings of a run that calls one function only
InitAlone ==
    /\ maxPodsEnv = Unset
    /\ hostname = PodName(1)
    /\ discoveryPort = defaultDiscoveryPort
    /\ file = NoFile
    /\ fileBefore = NoFile

\* the pipeline on a candidate list
Init ==
    /\ \E n \in 0..MaxCands :
          \E t \in [1..n -> 1..MaxTime], sh \in [1..n -> ListShapes] :
              pods = CandidateList(n, t, sh)
    /\ env \in [netName : {Unset, SetTo(<<"m">>)}, ifName : {UnsetIf}]
    /\ maxPods \in 0..MaxCap
    /\ InitCommon
    /\ InitAlone

Next == GetMediaDriverPodsCall

Spec == Init /\ [][Next]_vars

\* validateMultusNetworkStatus on one pod
InitValidate ==
    /\ \E nw \in NetworksValues : OnePod("pip", nw, ValidateAtts)
    /\ env = [netName |-> Unset, ifName |-> UnsetIf]
    /\ maxPods = 0
    /\ InitCommon
    /\ InitAlone

NextValidate == ValidateCall

SpecValidate == InitValidate /\ [][NextValidate]_vars

\* getIP on one pod
InitGetIP ==
    /\ \E ip \in {"", "pip"}, nw \in {<<>>, <<"m">>} : OnePod(ip, nw, GetIPAtts)
    /\ env \in [netName : NetNameSettings, ifName : IfNameSettings]
    /\ maxPods = 0
    /\ InitCommon
    /\ InitAlone

NextGetIP == GetIPCall

SpecGetIP == InitGetIP /\ [][NextGetIP]_vars

\* getMediaDriverPods on a list of one candidate with any annotations
InitOneCandidate ==
    /\ \E ip \in {"", "pip"}, nw \in {<<>>, <<"m">>} : OnePod(ip, nw, GetIPAtts)
    /\ env \in [netName : NetNameSettings, ifName : IfNameSettings]
    /\ maxPods \in {0, 1}
    /\ InitCommon
    /\ InitAlone

NextOneCandidate == GetMediaDriverPodsCall

SpecOneCandidate == InitOneCandidate /\ [][NextOneCandidate]_vars

\* unmarshalNetworkStatus on one annotation value
InitUnmarshal ==
    /\ OnePod("pip", <<>>, GetIPAtts)
    /\ env = [netName |-> Unset, ifName |-> UnsetIf]
    /\ maxPods = 0
    /\ InitCommon
    /\ InitAlone

NextUnmarshal == UnmarshalCall

SpecUnmarshal == InitUnmarshal /\ [][NextUnmarshal]_vars

\* parseNetworksAnnotation on one annotation value
InitParse ==
    /\ \E nw \in NetworksValues : OnePod("pip", nw, {SampleObj})
    /\ env = [netName |-> Unset, ifName |-> UnsetIf]
    /\ maxPods = 0
    /\ InitCommon
    /\ InitAlone

NextParse == ParseCall

SpecParse == InitParse /\ [][NextParse]_vars

\* the characters of the values of AERON_MD_MAX_BOOTSTRAP_PODS
EnvChars == {"0", "1", "7", "-", "+", " ", "x"}

\* getMaxPods on one setting of its variable
InitMaxPods ==
    /\ pods = <<>>
    /\ env = [netName |-> Unset, ifName |-> UnsetIf]
    /\ maxPods = 0
    /\ \/ maxPodsEnv = Unset
       \/ \E n \in 0..MaxEnvLen : \E s \in [1..n -> EnvChars] : maxPodsEnv = SetTo(s)
    /\ hostname = PodName(1)
    /\ discoveryPort = defaultDiscoveryPort
    /\ file = NoFile
    /\ fileBefore = NoFile
    /\ InitCommon

NextMaxPods == GetMaxPodsCall

SpecMaxPods == InitMaxPods /\ [][NextMaxPods]_vars

\* getMediaDriverPods on a list one longer than sort.Slice sorts by
\* insertion: pods with a primary address only, created at either of two
\* instants
InitLongList ==
    /\ \E t \in [1..(maxInsertion + 1) -> {1, 2}] :
          pods = [i \in 1..(maxInsertion + 1) |->
                     Pod(PodName(i), t[i], "pip", <<>>, <<>>)]
    /\ env = [netName |-> Unset, ifName |-> UnsetIf]
    /\ maxPods \in {0, 1}
    /\ InitCommon
    /\ InitAlone

NextLongList == GetMediaDriverPodsCall

SpecLongList == InitLongList /\ [][NextLongList]_vars

\* attachments whose declared name or interface may be the empty string
EmptyNameAtts ==
    { AttObj(n, itf, ips) :
        n \in {<<>>, <<"m">>},
        itf \in {"", "net1", "eth0"},
        ips \in {<<"ip1">>, <<"ip2">>} }

\* getIP on one pod with each override unset or set to the empty string
InitEmptyOverride ==
    /\ \E ip \in {"", "pip"} : OnePod(ip, <<>>, EmptyNameAtts)
    /\ env \in [netName : {Unset, SetTo(<<>>)}, ifName : {UnsetIf, SetTo("")}]
    /\ maxPods = 0
    /\ InitCommon
    /\ InitAlone

NextEmptyOverride == GetIPCall

SpecEmptyOverride == InitEmptyOverride /\ [][NextEmptyOverride]_vars

\* the values of pod.Status.Phase in the candidate lists
PodPhases == {"Pending", "Running", "Failed"}

\* the pod with its Status.Phase
WithPhase(pod, phase) ==
    [Name |-> pod.Name, Namespace |-> pod.Namespace, CreationTime |-> pod.CreationTime,
     PodIP |-> pod.PodIP, networks |-> pod.networks, status |-> pod.status,
     Phase |-> phase]

\* the list with the phases ph, one for each pod
Rephased(items, ph) == [i \in DOMAIN items |-> WithPhase(items[i], ph[i])]

\* the kinds of candidate in the lists with phases: a primary address only,
\* no primary address and a secondary one, a requested network without status
PhaseShapes ==
    { <<"pip", <<>>, <<>>>>,
      <<"", <<"m">>, EncodeStatus(<<AttObj(<<"x">>, "eth0", <<"ip1">>),
                                    AttObj(<<"m">>, "net2", <<"ip2">>)>>)>>,
      <<"pip", <<"m">>, <<>>>> }

\* getMediaDriverPods on a candidate list whose pods are in any phase
InitPhase ==
    /\ \E n \in 0..MaxListed :
          \E t \in [1..n -> {1, 2}], sh \in [1..n -> PhaseShapes],
             ph \in [1..n -> PodPhases] :
              pods = Rephased(CandidateList(n, t, sh), ph)
    /\ env \in [netName : {Unset, SetTo(<<"m">>)}, ifName : {UnsetIf}]
    /\ maxPods \in {0, 1}
    /\ InitCommon
    /\ InitAlone

NextPhase == GetMediaDriverPodsCall

SpecPhase == InitPhase /\ [][NextPhase]_vars

\* a run of main
InitMain ==
    /\ \E n \in 0..MaxListed :
          \E t \in [1..n -> {1, 2}], sh \in [1..n -> MainShapes] :
              pods = CandidateList(n, t, sh)
    /\ env \in [netName : {Unset, SetTo(<<"m">>)}, ifName : {UnsetIf}]
    /\ maxPods \in {0, 1}
    /\ maxPodsEnv = Unset
    /\ hostname \in {PodName(1), PodName(2), OtherName}
    /\ discoveryPort = defaultDiscoveryPort
    /\ file \in {NoFile, OldFile}
    /\ fileBefore = file
    /\ InitCommon

NextMain ==
    \/ MainSetupFails
    \/ ListPodsFails
    \/ GetMediaDriverPodsCall
    \/ MainCheckPods
    \/ GetCurrentPodCall
    \/ ResolveInterfaceCall
    \/ MainCreate

SpecMain == InitMain /\ [][NextMain]_vars

\* the addresses that a pod can have
Addresses == {"pip", "ip1", "ip2"}

\* createBootstrapPropertiesAtPath on given arguments
InitCreate ==
    /\ pods = <<>>
    /\ env = [netName |-> Unset, ifName |-> UnsetIf]
    /\ maxPods = 0
    /\ maxPodsEnv = Unset
    /\ hostname \in {PodName(1), PodName(2)}
    /\ discoveryPort \in {1, defaultDiscoveryPort, maxPort}
    /\ file \in {NoFile, OldFile}
    /\ fileBefore = file
    /\ pc = "start"
    /\ cur = 0
    /\ valid = FALSE
    /\ ipRet = NoIP
    /\ podsRet = NoPods
    /\ nsRet = NoNetworks
    /\ namesRet = <<>>
    /\ \E n \in 0..MaxCands : neighborIPs \in [1..n -> Addresses]
    /\ currentPod = NoPod
    /\ resolverInterface \in {"pip", "ip1"}

NextCreate == CreateCall

SpecCreate == InitCreate /\ [][NextCreate]_vars

(***************************************************************************)
(* Vocabulary of the properties, stated on the inputs and not through the  *)
(* operators of the pipeline.                                              *)
(***************************************************************************)
\* the attachments declared by the status annotation of a pod
Attachments(pod) == unmarshalNetworkStatus(pod.status).networks

\* the names requested by the networks annotation of a pod
Requested(pod) == parseNetworksAnnotation(pod.networks)

\* attachment a is named n or <namespace>/n
NamedFor(a, pod, n) ==
    a.Name = n \/ a.Name = pod.Namespace \o <<"/">> \o n

\* the request for n is met by the attachments atts: one of them is named
\* for n and has an address
MetBy(atts, pod, n) ==
    \E j \in DOMAIN atts : NamedFor(atts[j], pod, n) /\ atts[j].IPs # <<>>

RequestMet(pod, n) == MetBy(Attachments(pod), pod, n)

\* some requested network of the pod is not met
HasUnmetRequest(pod) ==
    LET atts == Attachments(pod)
        req == Requested(pod)
    IN  \E k \in DOMAIN req : ~MetBy(atts, pod, req[k])

\* the candidates that pass validation and resolve to a non-empty address
Survivors ==
    { i \in DOMAIN pods :
        /\ validateMultusNetworkStatus(pods[i])
        /\ getIP(pods[i], env).err = "nil"
        /\ getIP(pods[i], env).ip # "" }

ReturnedNames == { podsRet.pods[k].Name : k \in DOMAIN podsRet.pods }

Returned(i) == pods[i].Name \in ReturnedNames

Min(a, b) == IF a < b THEN a ELSE b

RemoveAt(s, i) == SubSeq(s, 1, i - 1) \o SubSeq(s, i + 1, Len(s))

\* getMediaDriverPods returned a list (no error, no run-time failure)
ListReturned == pc = "listed" /\ podsRet.err = "nil"

(***************************************************************************)
(* C1: the peer list returned by getMediaDriverPods is non-decreasing by   *)
(* creation time: for positions i < j, result[i].CreationTime is not after *)
(* result[j].CreationTime.                                                 *)
(***************************************************************************)
C1_Ordering ==
    pc = "listed" =>
        \A i, j \in DOMAIN podsRet.pods :
            i < j => podsRet.pods[i].CreationTime <= podsRet.pods[j].CreationTime

\* a list is returned whose first peer was listed after its second peer
C1_Witness ==
    /\ ListReturned
    /\ Len(podsRet.pods) >= 2
    /\ podsRet.pods[1].Name = PodName(2)
    /\ podsRet.pods[2].Name = PodName(1)
    /\ podsRet.pods[1].CreationTime < podsRet.pods[2].CreationTime

(***************************************************************************)
(* C2: with S the survivors, for a cap n > 0 the returned list has length  *)
(* min(|S|, n), holds survivors only, each once, and no omitted survivor   *)
(* is strictly older than a returned peer; for cap 0 it holds every        *)
(* survivor.  Skipped candidates take no cap slot.                         *)
(***************************************************************************)
C2_Capping ==
    ListReturned =>
        LET S == Survivors
            R == ReturnedNames
        IN  /\ Len(podsRet.pods) =
                  IF maxPods > 0 THEN Min(Cardinality(S), maxPods) ELSE Cardinality(S)
            /\ Cardinality(R) = Len(podsRet.pods)
            /\ \A i \in DOMAIN pods : pods[i].Name \in R => i \in S
            /\ \A i \in S :
                  pods[i].Name \notin R =>
                      \A k \in DOMAIN podsRet.pods :
                          ~(pods[i].CreationTime < podsRet.pods[k].CreationTime)
            /\ maxPods = 0 => \A i \in S : pods[i].Name \in R

\* more survivors than the cap, a skipped candidate listed first, and a
\* survivor left out that is as old as no returned peer
C2_Witness ==
    /\ ListReturned
    /\ maxPods > 0
    /\ Cardinality(Survivors) > maxPods
    /\ Len(podsRet.pods) = maxPods
    /\ 1 \in DOMAIN pods /\ 1 \notin Survivors
    /\ \E i \in Survivors : ~Returned(i) /\ pods[i].CreationTime = MaxTime

(***************************************************************************)
(* C3: a candidate with a requested network that no status attachment      *)
(* both names and gives an address never appears in the returned peer      *)
(* list, whatever its PodIP, also when it has no status annotation.        *)
(***************************************************************************)
C3_Validation ==
    pc = "listed" =>
        \A i \in DOMAIN pods : HasUnmetRequest(pods[i]) => ~Returned(i)

\* a list is returned although a candidate with a primary address has an
\* unmet request and no status annotation, and another has an attachment of
\* the wrong namespace
C3_Witness ==
    /\ ListReturned
    /\ podsRet.pods # <<>>
    /\ \E i \in DOMAIN pods :
          HasUnmetRequest(pods[i]) /\ pods[i].PodIP # "" /\ pods[i].status = <<>>
    /\ \E i \in DOMAIN pods :
          HasUnmetRequest(pods[i]) /\ pods[i].PodIP # "" /\ Attachments(pods[i]) # <<>>

(***************************************************************************)
(* C4: an invalid candidate is skipped, not fatal: the outcome of          *)
(* getMediaDriverPods (peer list and error) is the outcome on the          *)
(* candidate list with that candidate removed.                             *)
(***************************************************************************)
C4_SkipNotFatal ==
    pc = "listed" =>
        \A i \in DOMAIN pods :
            ~validateMultusNetworkStatus(pods[i]) =>
                podsRet = getMediaDriverPods(RemoveAt(pods, i), env, maxPods)

\* an invalid candidate stands between two returned peers
C4_Witness ==
    /\ ListReturned
    /\ Len(pods) >= 3
    /\ ~validateMultusNetworkStatus(pods[2])
    /\ Returned(1) /\ Returned(3)

(***************************************************************************)
(* C5: for a candidate with at least one requested name, the verdict of    *)
(* validateMultusNetworkStatus is true if and only if every requested name *)
(* has an attachment named for it with a non-empty address list.           *)
(***************************************************************************)
C5_ValidIffAllMet ==
    (pc = "validated" /\ Requested(pods[cur]) # <<>>) =>
        (valid <=> ~HasUnmetRequest(pods[cur]))

(***************************************************************************)
(* C6: whenever the requested-network sequence of a candidate is empty,    *)
(* the verdict is true, whatever its network-status annotation is.         *)
(***************************************************************************)
C6_NoRequestsValid ==
    (pc = "validated" /\ Requested(pods[cur]) = <<>>) => valid

(***************************************************************************)
(* C6 as amended: with an absent or empty networks annotation the verdict  *)
(* is true whatever the status annotation is; with a non-empty networks    *)
(* annotation that yields no name the verdict is true exactly when the     *)
(* status annotation is non-empty and unmarshalNetworkStatus reports no    *)
(* error for it.                                                           *)
(***************************************************************************)
C6_NoRequestsAmended ==
    (pc = "validated" /\ Requested(pods[cur]) = <<>>) =>
        (valid <=>
            \/ pods[cur].networks = <<>>
            \/ /\ pods[cur].status # <<>>
               /\ unmarshalNetworkStatus(pods[cur].status).err = "nil")

\* a non-empty networks annotation without a name, judged valid
C6_Witness ==
    /\ pc = "validated"
    /\ pods[cur].networks # <<>>
    /\ Requested(pods[cur]) = <<>>
    /\ Attachments(pods[cur]) # <<>>
    /\ valid

(***************************************************************************)
(* C7: a requested name N is matched by an attachment named exactly N or   *)
(* exactly <namespace of the candidate>/N and by no other: a valid         *)
(* candidate has, for every requested name, an attachment so named that    *)
(* has an address; and a candidate is valid when every requested name has  *)
(* attachments so named and all of them have an address.                   *)
(***************************************************************************)
C7_NameMatching ==
    pc = "validated" =>
        LET pod == pods[cur]
            atts == Attachments(pod)
        IN  /\ (valid /\ pod.networks # <<>>) =>
                  \A k \in DOMAIN Requested(pod) : RequestMet(pod, Requested(pod)[k])
            /\ ( /\ atts # <<>>
                 /\ \A k \in DOMAIN Requested(pod) :
                       /\ \E j \in DOMAIN atts : NamedFor(atts[j], pod, Requested(pod)[k])
                       /\ \A j \in DOMAIN atts :
                             NamedFor(atts[j], pod, Requested(pod)[k]) => atts[j].IPs # <<>> )
               => valid

\* the request "m" is met by the second attachment, named ns/m, after an
\* attachment of another namespace
C7_Witness ==
    /\ pc = "validated"
    /\ valid
    /\ Requested(pods[cur]) = << <<"m">> >>
    /\ Len(Attachments(pods[cur])) = 2
    /\ Attachments(pods[cur])[1].Name = <<"o", "/", "m">>
    /\ Attachments(pods[cur])[2].Name = <<"ns", "/", "m">>

(***************************************************************************)
(* C8: getIP never fails on a candidate that passed validation: it returns *)
(* an address (possibly empty) without an error and without a run-time     *)
(* failure.                                                                *)
(***************************************************************************)
C8_GetIPNeverFails ==
    (pc = "resolved" /\ validateMultusNetworkStatus(pods[cur])) => ipRet.err = "nil"

C10_NetworkNameFirst ==
    pc = "resolved" =>
        LET atts == Attachments(pods[cur])
            named == { j \in DOMAIN atts : atts[j].Name = env.netName.val }
        IN  (env.netName.set /\ named # {} /\ ipRet.err = "nil") =>
                LET j == CHOOSE m \in named : \A n \in named : m <= n
                IN  atts[j].IPs # <<>> => ipRet.ip = atts[j].IPs[1]

(***************************************************************************)
(* C11: the interface-name override takes precedence over the network-name *)
(* override: when both are set, some attachment has the interface name and *)
(* a different attachment has the network name, getIP returns the first    *)
(* address of the first attachment with the interface name, whatever the   *)
(* order of the two attachments.                                           *)
(***************************************************************************)
C11_InterfaceNameFirst ==
    pc = "resolved" =>
        LET atts == Attachments(pods[cur])
            named == { j \in DOMAIN atts : atts[j].Name = env.netName.val }
            onItf == { j \in DOMAIN atts : atts[j].Interface = env.ifName.val }
        IN  ( /\ env.netName.set /\ env.ifName.set
              /\ named # {} /\ onItf # {} /\ named \cap onItf = {}
              /\ ipRet.err = "nil" ) =>
                LET j == CHOOSE m \in onItf : \A n \in onItf : m <= n
                IN  atts[j].IPs # <<>> => ipRet.ip = atts[j].IPs[1]

(***************************************************************************)
(* C12: whenever the network-status annotation of a listed candidate is    *)
(* present and is rejected as malformed (a syntax error or a value that is *)
(* no array of objects), getMediaDriverPods ends with an error and no peer *)
(* list, whether or not the candidate carries a networks annotation.       *)
(***************************************************************************)
C12_MalformedStatusFatal ==
    pc = "listed" =>
        \A i \in DOMAIN pods :
            ( /\ pods[i].status # <<>>
              /\ JsonUnmarshalSlice(StatusKinds(pods[i].status)) \in {"syntax", "type"} )
            => podsRet = [pods |-> <<>>, err |-> "error"]

\* the annotation value is the beginning of a JSON document, cut off before
\* its end: it is not blank and the scan runs out of input
CutOff(annotation) ==
    /\ NonWs(StatusKinds(annotation)) # <<>>
    /\ JsonScan(StatusKinds(annotation)) = "eof"

(***************************************************************************)
(* C13: unmarshalNetworkStatus returns an empty sequence and no error for  *)
(* an empty or absent annotation value, and returns an error for a         *)
(* non-empty value that is cut off before its end ("[", an unterminated    *)
(* object) as for every other non-empty value that is no valid array.      *)
(***************************************************************************)
C13_OnlyEmptyIsEmpty ==
    pc = "unmarshalled" =>
        LET annotation == pods[cur].status
        IN  /\ annotation = <<>> => nsRet = [networks |-> <<>>, err |-> "nil"]
            /\ CutOff(annotation) => nsRet.err = "error"

\* the symbols of a networks annotation that are not white space
Visible(annotation) == SelectSeq(annotation, LAMBDA c : c # " ")

\* the annotation is a JSON array whose entries are objects (or null):
\* "[", entries separated by single commas, "]"
IsObjectArray(annotation) ==
    LET b == Visible(annotation)
        n == Len(b)
    IN  /\ n >= 2
        /\ b[1] = "[" /\ b[n] = "]"
        /\ n = 2 \/ n % 2 = 1
        /\ \A i \in 2..(n - 1) :
              IF i % 2 = 0 THEN b[i] \in NetObjects \cup {"null"} ELSE b[i] = ","

\* the names of the entries that have a string name, in array order
RECURSIVE ArrayNames(_)
ArrayNames(annotation) ==
    IF annotation = <<>> THEN <<>>
    ELSE IF Head(annotation) = "{name:m}" THEN << <<"m">> >> \o ArrayNames(Tail(annotation))
    ELSE IF Head(annotation) = "{name:x}" THEN << <<"x">> >> \o ArrayNames(Tail(annotation))
    ELSE ArrayNames(Tail(annotation))

\* the maximal comma-free pieces of the annotation, trimmed, empty ones left
\* out, in order
RECURSIVE ListNames(_, _)
ListNames(annotation, piece) ==
    LET name == TrimSpace(piece)
        here == IF name = <<>> THEN <<>> ELSE <<name>>
    IN  IF annotation = <<>> THEN here
        ELSE IF Head(annotation) = "," THEN here \o ListNames(Tail(annotation), <<>>)
        ELSE ListNames(Tail(annotation), Append(piece, Head(annotation)))

(***************************************************************************)
(* C14: parseNetworksAnnotation yields, for an array of objects, the       *)
(* string names of its entries in array order; for any other value the     *)
(* comma-separated elements, trimmed, the empty ones dropped, in order;    *)
(* and the empty sequence for the empty string.                            *)
(***************************************************************************)
C14_ThreeEncodings ==
    pc = "parsed" =>
        LET annotation == pods[cur].networks
        IN  namesRet = IF IsObjectArray(annotation)
                       THEN ArrayNames(annotation)
                       ELSE ListNames(annotation, <<>>)

\* the pieces of a string between its line feeds; a string that ends with a
\* line feed has the empty piece last
RECURSIVE PiecesFrom(_, _, _)
PiecesFrom(s, sep, piece) ==
    IF s = <<>> THEN <<piece>>
    ELSE IF Head(s) = sep THEN <<piece>> \o PiecesFrom(Tail(s), sep, <<>>)
    ELSE PiecesFrom(Tail(s), sep, Append(piece, Head(s)))

Pieces(s, sep) == PiecesFrom(s, sep, <<>>)

\* the number that a sequence of decimal digits denotes
DigitValue(c) ==
    CHOOSE d \in 0..9 : (<<"0", "1", "2", "3", "4", "5", "6", "7", "8", "9">>)[d + 1] = c

RECURSIVE DecimalValue(_)
DecimalValue(digits) ==
    IF Len(digits) = 1 THEN DigitValue(digits[1])
    ELSE 10 * DecimalValue(SubSeq(digits, 1, Len(digits) - 1)) + DigitValue(digits[Len(digits)])

\* the text is address:port
IsEntry(text, address, port) ==
    /\ Len(text) >= 3
    /\ text[1] = address
    /\ text[2] = ":"
    /\ DecimalValue(SubSeq(text, 3, Len(text))) = port

NeighborKey == "aeron.driver.resolver.bootstrap.neighbor="

\* createBootstrapPropertiesAtPath has written the file
Created == pc \in {"created", "recreated", "done"}

(***************************************************************************)
(* C15: the file written by createBootstrapPropertiesAtPath has a neighbor *)
(* line if and only if the peer list is not empty; the line is then the    *)
(* first one and lists, comma-separated and in the order supplied, one     *)
(* entry address:port per supplied address, all with the discovery port.   *)
(***************************************************************************)
C15_NeighborLine ==
    Created =>
        LET lines == Pieces(file.data, "\n")
            keyed == { k \in DOMAIN lines : lines[k] # <<>> /\ lines[k][1] = NeighborKey }
        IN  /\ keyed # {} <=> neighborIPs # <<>>
            /\ keyed # {} =>
                  /\ keyed = {1}
                  /\ LET entries == Pieces(Tail(lines[1]), ",")
                     IN  /\ Len(entries) = Len(neighborIPs)
                         /\ \A i \in DOMAIN entries :
                               IsEntry(entries[i], neighborIPs[i], discoveryPort)

\* a file written over an older one for three peers, two of them at the same
\* address, and a port of several digits
C15_Witness ==
    /\ pc = "created"
    /\ fileBefore = OldFile
    /\ Len(neighborIPs) = 3
    /\ neighborIPs[1] = neighborIPs[3]
    /\ neighborIPs[1] # neighborIPs[2]
    /\ discoveryPort = maxPort
    /\ Len(Pieces(file.data, "\n")) = 5

(***************************************************************************)
(* C16: after the optional neighbor line the file holds exactly three      *)
(* lines in this order: the name-resolver supplier line, the resolver name *)
(* line with the full host name, the resolver interface line with          *)
(* <local address>:<discovery port>.  No line is blank and the file ends   *)
(* with exactly one line feed: three lines for an empty peer list, four    *)
(* otherwise.                                                              *)
(***************************************************************************)
C16_FixedLines ==
    Created =>
        LET pieces == Pieces(file.data, "\n")
            n == Len(pieces) - 1
            first == IF neighborIPs = <<>> THEN 1 ELSE 2
        IN  /\ pieces[n + 1] = <<>>
            /\ \A k \in 1..n : pieces[k] # <<>>
            /\ n = IF neighborIPs = <<>> THEN 3 ELSE 4
            /\ pieces[first] = <<"aeron.name.resolver.supplier=driver">>
            /\ pieces[first + 1] =
                  <<"aeron.driver.resolver.name=">> \o hostname
                      \o <<".">> \o TestNamespace \o <<".aeron">>
            /\ pieces[first + 2][1] = "aeron.driver.resolver.interface="
            /\ IsEntry(Tail(pieces[first + 2]), resolverInterface, discoveryPort)

\* a file of three lines written where there was none
C16_Witness ==
    /\ pc = "created"
    /\ ~fileBefore.exists
    /\ neighborIPs = <<>>
    /\ Len(file.data) > 3
    /\ file.data[Len(file.data)] = "\n"

(***************************************************************************)
(* C17: createBootstrapPropertiesAtPath is idempotent: called again with   *)
(* the same arguments on the file it has written, it leaves the file as it *)
(* is.                                                                     *)
(***************************************************************************)
C17_Idempotent ==
    [][(pc = "created" /\ pc' = "recreated") => file' = file]_vars

\* the file has been written twice for a non-empty peer list
C17_Witness ==
    /\ pc = "recreated"
    /\ neighborIPs # <<>>
    /\ file.exists
    /\ file # fileBefore

\* the run of main has ended without the bootstrap file being written
Failed == pc \in {"fatalSetup", "exit1", "fatal", "panic"}

(***************************************************************************)
(* C18: in a run of main in which no candidate survives (none is valid     *)
(* with a non-empty address, the list API included), the bootstrap file is *)
(* never created or written: it stays as it was before the run, and the    *)
(* run goes no further than its failure.                                   *)
(***************************************************************************)
C18_NoPeersNoFile ==
    (pc # "start" /\ Survivors = {}) =>
        /\ file = fileBefore
        /\ pc = "listed" \/ Failed

\* the run has ended with status 1: candidates were listed, the local pod
\* among them, none survived, and the file of an earlier run is still there
C18_Witness ==
    /\ pc = "exit1"
    /\ pods # <<>>
    /\ hostname = PodName(1)
    /\ fileBefore = OldFile
    /\ file = OldFile

\* getIP fails on a candidate that passed validation
SomeValidFails ==
    \E i \in DOMAIN pods :
        validateMultusNetworkStatus(pods[i]) /\ getIP(pods[i], env).err # "nil"

NeighborAddresses ==
    LET entries == Pieces(Tail(Pieces(file.data, "\n")[1]), ",")
    IN  [k \in DOMAIN entries |-> entries[k][1]]

\* the address on the resolver-interface line, the last line of the file
InterfaceAddress ==
    LET pieces == Pieces(file.data, "\n")
    IN  pieces[Len(pieces) - 1][2]

C21_NonEmptyAddresses ==
    pc = "listed" =>
        /\ \A k \in DOMAIN podsRet.pods : podsRet.pods[k].IP # ""
        /\ \A i \in DOMAIN pods :
              getIP(pods[i], env) = [ip |-> "", err |-> "nil"] => ~Returned(i)

\* a list is returned that leaves out a valid candidate without an address,
\* listed between two returned peers
C21_Witness ==
    /\ ListReturned
    /\ Len(pods) = 3
    /\ validateMultusNetworkStatus(pods[2])
    /\ getIP(pods[2], env) = [ip |-> "", err |-> "nil"]
    /\ Returned(1) /\ Returned(3) /\ ~Returned(2)

\* the string is a decimal integer: an optional sign and one digit at least
IsDecimalInteger(s) ==
    LET digits == IF s # <<>> /\ s[1] \in {"-", "+"} THEN Tail(s) ELSE s
    IN  /\ digits # <<>>
        /\ \A i \in DOMAIN digits :
              digits[i] \in {"0", "1", "2", "3", "4", "5", "6", "7", "8", "9"}

\* the number that a decimal integer denotes
IntegerValue(s) ==
    IF s[1] = "-" THEN 0 - DecimalValue(Tail(s))
    ELSE IF s[1] = "+" THEN DecimalValue(Tail(s))
    ELSE DecimalValue(s)

PositionOf(name) == CHOOSE i \in DOMAIN pods : pods[i].Name = name

(***************************************************************************)
(* C24: survivors of equal creation time keep their relative order of the  *)
(* candidate list in the returned peer list (the sort is stable), so the   *)
(* cap keeps those of them that are listed first.                          *)
(***************************************************************************)
C24_StableSort ==
    ListReturned =>
        \A k, l \in DOMAIN podsRet.pods :
            (k < l /\ podsRet.pods[k].CreationTime = podsRet.pods[l].CreationTime)
            => PositionOf(podsRet.pods[k].Name) < PositionOf(podsRet.pods[l].Name)

\* the attachment satisfies an enabled rule: its name is the network-name
\* override that is set, its interface is the interface-name override that
\* is set, or its interface is net1
SatisfiesRule(a) ==
    \/ env.netName.set /\ a.Name = env.netName.val
    \/ env.ifName.set /\ a.Interface = env.ifName.val
    \/ a.Interface = "net1"

(***************************************************************************)
(* C25: for a candidate with at least one attachment, getIP returns the    *)
(* first address of the earliest attachment, in annotation order, that     *)
(* satisfies an enabled rule; when no attachment satisfies a rule it       *)
(* returns the primary address (PodIP).                                    *)
(***************************************************************************)
C25_EarliestMatch ==
    (pc = "resolved" /\ Attachments(pods[cur]) # <<>>) =>
        LET atts == Attachments(pods[cur])
            sel == { j \in DOMAIN atts : SatisfiesRule(atts[j]) }
        IN  IF sel = {}
            THEN ipRet = [ip |-> pods[cur].PodIP, err |-> "nil"]
            ELSE LET j == CHOOSE m \in sel : \A n \in sel : m <= n
                 IN  /\ ipRet.err = "nil"
                     /\ atts[j].IPs # <<>>
                     /\ ipRet.ip = atts[j].IPs[1]

\* the attachment matches an override that is set
MatchesOverride(a) ==
    \/ env.netName.set /\ a.Name = env.netName.val
    \/ env.ifName.set /\ a.Interface = env.ifName.val

(***************************************************************************)
(* C26: the default interface net1 selects an attachment only when neither *)
(* override is set: when an override is set (to a name) and no attachment  *)
(* matches a set override, getIP does not return the address of a net1     *)
(* attachment, it returns the primary address.                             *)
(***************************************************************************)
C26_DefaultOnlyWhenUnset ==
    pc = "resolved" =>
        LET atts == Attachments(pods[cur])
        IN  ( /\ \/ env.netName.set /\ env.netName.val # <<>>
                 \/ env.ifName.set /\ env.ifName.val # ""
              /\ \A j \in DOMAIN atts : ~MatchesOverride(atts[j])
              /\ ipRet.err = "nil" )
            => /\ ipRet.ip = pods[cur].PodIP
               /\ \A j \in DOMAIN atts :
                     (atts[j].Interface = "net1" /\ atts[j].IPs # <<>>)
                     => ipRet.ip # atts[j].IPs[1]

\* the run of main has ended
Ended == pc = "done" \/ Failed

\* the peer list is not empty, the local record is fetched and the local
\* address is resolved and not empty
ReadyToWrite ==
    /\ podsRet.err = "nil" /\ podsRet.pods # <<>>
    /\ neighborIPs # <<>>
    /\ currentPod.Name = hostname
    /\ ipRet.err = "nil" /\ resolverInterface # ""

(***************************************************************************)
(* C27: a run of main ends in one of two ways, with the file written once  *)
(* and success, or with a failure; it goes on until then and no further.   *)
(* The write is the last step and is made only when the peer list is not   *)
(* empty, the local record is fetched and the local address is not empty.  *)
(* A run that fails before the write step (client or list failure, resolve *)
(* error, no peers, local record missing, empty local address) leaves the  *)
(* file as it was.                                                         *)
(***************************************************************************)
C27_TwoEndings ==
    /\ [](Ended <=> ~ENABLED NextMain)
    /\ [](pc = "done" => file.exists /\ ReadyToWrite)
    /\ [][ /\ file' # file =>
                (pc = "resolvedLocal" /\ ReadyToWrite /\ pc' \in {"done", "fatal"})
           /\ pc' = "done" => (pc = "resolvedLocal" /\ file = fileBefore)
           /\ (pc' \in {"fatalSetup", "exit1", "fatal", "panic"} /\ pc # "resolvedLocal")
                => file' = fileBefore ]_vars

\* the run has succeeded: the local pod is outside the selection and the
\* file of an earlier run is replaced by one with a single peer
C27_Witness ==
    /\ pc = "done"
    /\ hostname = OtherName
    /\ fileBefore = OldFile
    /\ file # OldFile
    /\ Len(neighborIPs) = 1

(***************************************************************************)
(* C28: the phase of a candidate has no influence on the result: the       *)
(* candidate list with any other phases gives the same peer list.  Without *)
(* a cap, a candidate is a peer exactly when it passes validation and its  *)
(* resolved address is not empty.                                          *)
(***************************************************************************)
C28_PhaseIgnored ==
    pc = "listed" =>
        /\ \A ph \in [DOMAIN pods -> PodPhases] :
              podsRet = getMediaDriverPods(Rephased(pods, ph), env, maxPods)
        /\ (podsRet.err = "nil" /\ maxPods = 0) =>
              \A i \in DOMAIN pods :
                  Returned(i) <=> /\ validateMultusNetworkStatus(pods[i])
                                  /\ getIP(pods[i], env).ip # ""

\* two candidates in phases other than Running, one of them a peer and the
\* other not
C28_Witness ==
    /\ pc = "listed"
    /\ podsRet.err = "nil"
    /\ \E i, j \in DOMAIN pods :
          /\ pods[i].Phase = "Pending" /\ Returned(i)
          /\ pods[j].Phase = "Failed" /\ ~Returned(j)
          /\ validateMultusNetworkStatus(pods[j])

\* the addresses of the entries on the neighbor line of the file, none when
\* the file has no neighbor line
NeighborLineAddresses ==
    LET lines == Pieces(file.data, "\n")
    IN  IF lines[1] # <<>> /\ lines[1][1] = NeighborKey
        THEN LET entries == Pieces(Tail(lines[1]), ",")
             IN  { entries[k][1] : k \in { e \in DOMAIN entries : entries[e] # <<>> } }
        ELSE {}

\* the surviving candidates ahead of candidate i: the older ones and, of
\* those created at the same instant, the ones listed before it
Ahead(i) ==
    { j \in Survivors :
        \/ pods[j].CreationTime < pods[i].CreationTime
        \/ pods[j].CreationTime = pods[i].CreationTime /\ j < i }

\* candidate i survives and the cap does not cut it off
InsideCap(i) ==
    /\ i \in Survivors
    /\ maxPods > 0 => Cardinality(Ahead(i)) < maxPods

(***************************************************************************)
(* C29: the local pod is not left out of its own neighbor list: when its   *)
(* record is among the listed candidates, passes validation, resolves to a *)
(* non-empty address and is inside the cap, the file that the run writes   *)
(* has that address on its neighbor line.                                  *)
(***************************************************************************)
C29_LocalIsNeighbor ==
    pc = "done" =>
        \A i \in DOMAIN pods :
            (pods[i].Name = hostname /\ InsideCap(i)) =>
                getIP(pods[i], env).ip \in NeighborLineAddresses

\* the file is written for a local pod that is the only peer
C29_Witness ==
    /\ pc = "done"
    /\ Len(podsRet.pods) = 1
    /\ podsRet.pods[1].Name = hostname
    /\ \E i \in DOMAIN pods : pods[i].Name = hostname /\ InsideCap(i)
    /\ NeighborLineAddresses = {resolverInterface}

\* the setting of an override variable as the other configuration variables
\* are read: set to the empty string is not set
AsGetenv(v, unset) == IF v.set /\ Getenv(v) # unset.val THEN v ELSE unset

(***************************************************************************)
(* C30: an override variable set to the empty string behaves as if it were *)
(* unset: getIP returns for every pod what it returns with the overrides   *)
(* that are set to the empty string unset, also for attachments whose      *)
(* declared name or interface is the empty string.                         *)
(***************************************************************************)
C30_EmptyIsUnset ==
    pc = "resolved" =>
        ipRet = getIP(pods[cur], [netName |-> AsGetenv(env.netName, Unset),
                                  ifName |-> AsGetenv(env.ifName, UnsetIf)])

====
